---- MODULE Spec2Model ----
(***************************************************************************)
(* Model of the pickleball court-assignment notifier.                      *)
(*                                                                         *)
(*   config.py                ConfigManager: the match store, its history  *)
(*                            and its persisted file                       *)
(*   api_client.py            PickleballApiClient: the court check         *)
(*   notification_handler.py  NotificationHandler: the notification pass   *)
(*   scraper.py               PickleballPlayerScraper: one polling cycle   *)
(*                                                                         *)
(*   youtube_checker.py       YouTubeStreamChecker: the live-video query   *)
(*                                                                         *)
(* Eight specifications share the variables:                               *)
(*   Spec         the public operations of the store and the notification  *)
(*                pass, called in any order with any arguments;            *)
(*   SpecRestart  the same, with save_config and a restart of the process  *)
(*                (a new ConfigManager loading the persisted file);        *)
(*   SpecCycle    the program itself: main() runs one polling cycle per    *)
(*                process invocation, step by step;                        *)
(*   SpecLoad     load_config on a persisted file of any content;          *)
(*   SpecNotify   send_notification and check_court_stream on any match,   *)
(*                in processes with any salt of hash();                    *)
(*   SpecRoster   _extract_player_names on any match data;                 *)
(*   SpecHistory  record_execution and the cleanup on a loaded history of  *)
(*                any length around the limit;                             *)
(*   SpecRoundTrip  the operations on one record and on the history, with  *)
(*                save_config and new ConfigManagers loading the file.     *)
(*                                                                         *)
(* Python's None is the string "None" for optional strings and 0 for       *)
(* optional timestamps; timestamps are the positive readings of a clock.   *)
(***************************************************************************)
EXTENDS Integers, Sequences, FiniteSets, TLC

\* ------------------------------------------------------------------ bounds

\* The match ids a page can show (the uuid part of a Results link).
Ids == {"a1", "a2"}

\* Clock readings available to a run of Spec: every call of
\* get_current_timestamp takes the next reading, so MaxTime bounds the number
\* of timestamped store operations in one behaviour.
MaxTime == 4

\* Longest list of Results links a page (or a caller of update_matches) gives.
MaxUrls == 2

\* Process invocations (one polling cycle each) in a behaviour of SpecCycle.
MaxCycles == 2

\* ------------------------------------------------------------------ values

None == "None"
NoTime == 0

\* A link: a Results link to a match ('/results/match/<uuid>' in the href) or
\* any other link.
MatchUrl(uuid) == [path |-> "/results/match/", uuid |-> uuid]
OtherUrl == [path |-> "/other/", uuid |-> ""]
Urls == {MatchUrl(u) : u \in Ids} \cup {OtherUrl}

\* Sequences over S of length at most n.
SeqsUpTo(S, n) == UNION {[1..k -> S] : k \in 0..n}

\* The lists of at most n links in which the links to one match are adjacent
\* and the other links come last, one list for every multiset of links:
\* update_matches puts the uuids of its list in a set before it acts on them
\* (lines 131-135), so the order of the links in the list has no effect.
UrlLists(n) ==
    {s \in SeqsUpTo(Urls, n) :
        \A i, j \in DOMAIN s :
            i < j => \/ s[i].uuid = s[j].uuid
                     \/ s[j].uuid = ""
                     \/ (s[i].uuid # "" /\ \A k \in DOMAIN s :
                                              k > j => s[k].uuid # s[i].uuid)}

Range(s) == {s[i] : i \in DOMAIN s}

\* Python truthiness of an Optional[str].
Truthy(s) == s # None /\ s # ""

\* "x or d" on an Optional[str].
OrElse(s, d) == IF Truthy(s) THEN s ELSE d

\* ------------------------------------------------------------------ config.py

\* MatchInfo(uuid, url, first_seen, last_seen, status) with the dataclass
\* defaults for the remaining fields.
MatchInfo(uuid, url, first_seen, last_seen, status) ==
    [uuid |-> uuid, url |-> url, first_seen |-> first_seen,
     last_seen |-> last_seen, status |-> status,
     last_checked |-> NoTime, court_assigned |-> FALSE, court_title |-> None,
     match_completed |-> None, notified |-> FALSE,
     notification_timestamp |-> NoTime]

\* The empty dict.
EmptyMatches == [u \in {} |-> 0]

\* d[k] = v on a dict.
DictSet(d, k, v) == [x \in DOMAIN d \cup {k} |-> IF x = k THEN v ELSE d[x]]

\* del d[k] for every k in ks.
DictDel(d, ks) == [x \in DOMAIN d \ ks |-> d[x]]

\* update_matches, lines 130-135: the uuids of the links that contain
\* '/results/match/'.
CurrentUuids(match_urls) ==
    {match_urls[i].uuid : i \in {j \in DOMAIN match_urls :
                                     match_urls[j].path = "/results/match/"}}

\* update_matches, lines 139-153: one iteration of the loop over current_uuids.
\* acc = [matches, new_matches, existing_matches].
UpsertOverwrite(acc, uuid, current_time) ==
    [matches |-> DictSet(acc.matches, uuid,
                         MatchInfo(uuid, MatchUrl(uuid), current_time,
                                   current_time, "future")),
     new_matches |-> acc.new_matches + 1,
     existing_matches |-> acc.existing_matches]

Upsert(acc, uuid, current_time) ==
    IF uuid \in DOMAIN acc.matches
    THEN [matches |-> [acc.matches EXCEPT ![uuid].last_seen = current_time],
          new_matches |-> acc.new_matches,
          existing_matches |-> acc.existing_matches + 1]
    ELSE [matches |-> DictSet(acc.matches, uuid,
                              MatchInfo(uuid, MatchUrl(uuid), current_time,
                                        current_time, "future")),
          new_matches |-> acc.new_matches + 1,
          existing_matches |-> acc.existing_matches]

RECURSIVE UpsertAll(_, _, _)
UpsertAll(acc, uuids, current_time) ==
    IF uuids = {} THEN acc
    ELSE LET u == CHOOSE x \in uuids : TRUE
         IN UpsertAll(Upsert(acc, u, current_time), uuids \ {u}, current_time)

CountStatus(m, status) == Cardinality({u \in DOMAIN m : m[u].status = status})

\* update_matches(match_urls) with current_time the clock reading of line 126:
\* the store afterwards and the returned counts.
UpdateMatches(m, match_urls, current_time) ==
    LET acc == UpsertAll([matches |-> m, new_matches |-> 0,
                          existing_matches |-> 0],
                         CurrentUuids(match_urls), current_time)
    IN [matches |-> acc.matches,
        ret |-> [new_matches |-> acc.new_matches,
                 existing_matches |-> acc.existing_matches,
                 total_matches |-> Cardinality(DOMAIN acc.matches),
                 future_matches |-> CountStatus(acc.matches, "future"),
                 assigned_matches |-> CountStatus(acc.matches, "assigned")]]

\* remove_stale_matches(current_uuids): the store afterwards and the count
\* returned.
StaleUuidsFutureOnly(m, current_uuids) ==
    {u \in DOMAIN m \ current_uuids : m[u].status = "future"}

StaleUuids(m, current_uuids) == DOMAIN m \ current_uuids

RemoveStaleMatches(m, current_uuids) ==
    LET stale_uuids == StaleUuids(m, current_uuids)
    IN IF stale_uuids = {}
       THEN [matches |-> m, ret |-> 0]
       ELSE [matches |-> DictDel(m, stale_uuids),
             ret |-> Cardinality(stale_uuids)]

\* get_matches_needing_court_check
MatchesNeedingCourtCheck(m) == {u \in DOMAIN m : m[u].status = "future"}

\* update_court_assignment, lines 218-220: the status after the call.
StatusAfterFollowsFlag(status, assigned) == IF assigned THEN "assigned" ELSE "future"

StatusAfter(status, assigned) ==
    IF assigned /\ status = "future" THEN "assigned" ELSE status

\* update_court_assignment, lines 222-225: the notified flag after the call.
NotifiedAfterIgnoresCompleted(notified, match_completed) == notified

NotifiedAfter(notified, match_completed) ==
    IF Truthy(match_completed) THEN TRUE ELSE notified

\* update_court_assignment(uuid, court_title, assigned, match_completed); t is
\* the clock before the call. The call reads the clock once (last_checked) and
\* once more when match_completed is truthy (notification_timestamp).
UpdateCourtAssignment(m, uuid, court_title, assigned, match_completed, t) ==
    IF uuid \in DOMAIN m
    THEN LET r == m[uuid]
             done == Truthy(match_completed)
         IN [matches |->
                [m EXCEPT ![uuid] =
                    [r EXCEPT
                       !.court_assigned = assigned,
                       !.court_title = IF assigned THEN court_title ELSE None,
                       !.match_completed = match_completed,
                       !.last_checked = t + 1,
                       !.status = StatusAfter(r.status, assigned),
                       !.notified = NotifiedAfter(r.notified, match_completed),
                       !.notification_timestamp =
                           IF done THEN t + 2 ELSE r.notification_timestamp]],
             now |-> IF done THEN t + 2 ELSE t + 1]
    ELSE [matches |-> m, now |-> t]

\* mark_as_notified(uuid); t is the clock before the call.
MarkAsNotifiedNoTimestamp(m, uuid, t) ==
    IF uuid \in DOMAIN m
    THEN [matches |-> [m EXCEPT ![uuid].notified = TRUE], now |-> t]
    ELSE [matches |-> m, now |-> t]

MarkAsNotified(m, uuid, t) ==
    IF uuid \in DOMAIN m
    THEN [matches |-> [m EXCEPT ![uuid].notified = TRUE,
                                ![uuid].notification_timestamp = t + 1],
          now |-> t + 1]
    ELSE [matches |-> m, now |-> t]

\* get_pending_notifications, as the set of the uuids of the records returned.
IsPendingIgnoresNotified(r) == r.court_assigned /\ ~Truthy(r.match_completed)

IsPending(r) ==
    r.court_assigned /\ ~r.notified /\ ~Truthy(r.match_completed)

\* get_pending_notifications, lines 237-240.
PendingNotificationsAll(m) == DOMAIN m

PendingNotifications(m) == {u \in DOMAIN m : IsPending(m[u])}

\* The persisted file: whether its content is a JSON object (shape "object"),
\* a JSON array ("array") or no JSON at all ("not_json"), and the 'matches'
\* and 'execution_history' entries of the object. The 'last_updated' entry is
\* written and never read back.
EmptyFile ==
    [exists |-> TRUE, shape |-> "object", matches |-> EmptyMatches,
     execution_history |-> <<>>]

\* No file yet.
NoFile ==
    [exists |-> FALSE, shape |-> "object", matches |-> EmptyMatches,
     execution_history |-> <<>>]

\* save_config: asdict of every record, in a file that replaces the old one.
SaveConfig(m, h) ==
    [exists |-> TRUE, shape |-> "object", matches |-> m,
     execution_history |-> h]

\* load_config, lines 66-70: the retired status labels.
MigrateStatusKeepsLabel(status) == status

MigrateStatus(status) ==
    IF status = "current" THEN "assigned"
    ELSE IF status = "unknown" THEN "future" ELSE status

\* The fields of the dataclass MatchInfo, and those without a default.
MatchInfoFields ==
    {"uuid", "url", "first_seen", "last_seen", "status", "last_checked",
     "court_assigned", "court_title", "match_completed", "notified",
     "notification_timestamp"}

MatchInfoRequired == {"uuid", "url", "first_seen", "last_seen", "status"}

\* MatchInfo(**match_data) raises TypeError on a missing required field or an
\* unexpected one.
MatchInfoRaises(match_data) ==
    ~(MatchInfoRequired \subseteq DOMAIN match_data
      /\ DOMAIN match_data \subseteq MatchInfoFields)

\* load_config, lines 66-72: one persisted entry, its status migrated, as
\* MatchInfo(**match_data) with the defaults for the fields it lacks.
LoadMatchRequiredOnly(match_data) ==
    [uuid |-> match_data.uuid, url |-> match_data.url,
     first_seen |-> match_data.first_seen,
     last_seen |-> match_data.last_seen,
     status |-> MigrateStatus(match_data.status),
     last_checked |-> NoTime, court_assigned |-> FALSE, court_title |-> None,
     match_completed |-> None, notified |-> FALSE,
     notification_timestamp |-> NoTime]

LoadMatch(match_data) ==
    LET has(f) == f \in DOMAIN match_data
    IN [uuid |-> match_data.uuid, url |-> match_data.url,
        first_seen |-> match_data.first_seen,
        last_seen |-> match_data.last_seen,
        status |-> MigrateStatus(match_data.status),
        last_checked |->
            IF has("last_checked") THEN match_data.last_checked ELSE NoTime,
        court_assigned |->
            IF has("court_assigned") THEN match_data.court_assigned ELSE FALSE,
        court_title |->
            IF has("court_title") THEN match_data.court_title ELSE None,
        match_completed |->
            IF has("match_completed") THEN match_data.match_completed ELSE None,
        notified |-> IF has("notified") THEN match_data.notified ELSE FALSE,
        notification_timestamp |->
            IF has("notification_timestamp")
            THEN match_data.notification_timestamp ELSE NoTime]

\* load_config, lines 64-72: MatchInfo(**match_data) for every persisted entry.
LoadMatches(file) ==
    [u \in DOMAIN file.matches |-> LoadMatch(file.matches[u])]

\* ------------------------------------------------------------------ notification_handler.py

\* _build_player_info_string reads match.partner_name and match.opponent_names
\* (lines 205, 209): an AttributeError on a record that has no such fields.
BuildPlayerInfoRaises(match) ==
    "partner_name" \notin DOMAIN match \/ "opponent_names" \notin DOMAIN match

\* send_notification(match): True when the message was built and the sink
\* accepted the post (sinkOk, the sink's answer to a post); every exception,
\* the message builder's included, is caught and gives False (lines 131-136).
SendNotification(match, sinkOk) ==
    IF BuildPlayerInfoRaises(match) THEN FALSE ELSE sinkOk

\* send_notification(match) raises: never, the whole body is in a try whose
\* last clause catches Exception (lines 110, 134).
SendNotificationRaisesFromBuilder(match, sinkOk) == BuildPlayerInfoRaises(match)

SendNotificationRaises(match, sinkOk) == FALSE

\* process_pending_notifications, lines 241-245: one iteration of the loop.
\* acc = [matches, sent_count, now].
NotifyOneMarksAnyway(acc, uuid, sinkOk) ==
    LET marked == MarkAsNotified(acc.matches, uuid, acc.now)
    IN [matches |-> marked.matches,
        sent_count |-> acc.sent_count
                       + (IF SendNotification(acc.matches[uuid], sinkOk)
                          THEN 1 ELSE 0),
        now |-> marked.now]

NotifyOne(acc, uuid, sinkOk) ==
    IF uuid \in DOMAIN acc.matches /\ SendNotification(acc.matches[uuid], sinkOk)
    THEN LET marked == MarkAsNotified(acc.matches, uuid, acc.now)
         IN [matches |-> marked.matches, sent_count |-> acc.sent_count + 1,
             now |-> marked.now]
    ELSE acc

RECURSIVE NotifyAll(_, _, _)
NotifyAll(acc, pending, sinkOk) ==
    IF pending = {} THEN acc
    ELSE LET u == CHOOSE x \in pending : TRUE
         IN NotifyAll(NotifyOne(acc, u, sinkOk[u]), pending \ {u}, sinkOk)

\* ------------------------------------------------------------------ state

VARIABLES
    matches,            \* ConfigManager.matches: uuid -> MatchInfo
    execution_history,  \* ConfigManager.execution_history
    disk,               \* the persisted file scraper_config.json
    now,                \* the last clock reading handed out
    pc,                 \* SpecCycle: where the running process is
    frame,              \* SpecCycle: the locals of the running cycle
    cycles,             \* SpecCycle: process invocations so far
    last,               \* history: the last operation, its arguments and result
    pre,                \* history: ConfigManager.matches before that operation
    everPending,        \* history: uuids get_pending_notifications has held
    suppressed,         \* history: uuids completed before ever being pending
    failed,             \* history: failed dispatches per uuid since it was stored
    reported,           \* history: uuids the API reported assigned and completed
    attempted,          \* history: uuids send_notification was called for, this cycle
    str_hash,           \* hash() of the running process on the uuids (line 173)
    chosen              \* history: template indices chosen per uuid so far

vars == <<matches, execution_history, disk, now, pc, frame, cycles, last, pre,
          everPending, suppressed, failed, reported, attempted, str_hash,
          chosen>>

\* The hash of the process and the history of the templates: read and
\* written by the message builder only, which no record of the store gets
\* through (BuildPlayerInfoRaises), so the specifications that dispatch for
\* stored records leave them alone.
notifyVars == <<str_hash, chosen>>

cycleVars == <<pc, frame, cycles, failed, reported, attempted, notifyVars>>

storeHistory == <<everPending, suppressed>>

NoCounts ==
    [new_matches |-> 0, existing_matches |-> 0, total_matches |-> 0,
     future_matches |-> 0, assigned_matches |-> 0]

NoStats == [checked |-> 0, court_assigned |-> 0, errors |-> 0]

\* The locals of scrape_player_tournament_results and of the notification
\* pass it runs: pending[i] is the record the loop of
\* process_pending_notifications is at.
NoFrame ==
    [results_urls |-> <<>>, stale_removed |-> 0, match_counts |-> NoCounts,
     court_stats |-> NoStats, history_cleaned |-> 0, pending |-> <<>>,
     i |-> 0, sent_count |-> 0]

NoFailures == [u \in Ids |-> 0]

\* hash() before any process has been given its salt, and the templates
\* chosen before any message was built.
NoHash == [u \in Ids |-> 0]

NoTemplates == [u \in Ids |-> {}]

\* The history of which uuids have been pending and which were completed
\* first, for a step that ends in store m2; a record that is removed loses
\* its history.
Track(m2, newlySuppressed) ==
    /\ everPending' = (everPending \cup PendingNotifications(m2)) \cap DOMAIN m2
    /\ suppressed' = (suppressed \cup newlySuppressed) \cap DOMAIN m2

\* ConfigManager(): the file does not exist yet, so load_config writes the
\* empty store (lines 55-57).
Init ==
    /\ matches = EmptyMatches
    /\ execution_history = <<>>
    /\ disk = EmptyFile
    /\ now = 0
    /\ pc = "api"
    /\ frame = NoFrame
    /\ cycles = 0
    /\ last = [op |-> "init"]
    /\ pre = EmptyMatches
    /\ everPending = {}
    /\ suppressed = {}
    /\ failed = NoFailures
    /\ reported = {}
    /\ attempted = <<>>
    /\ str_hash = NoHash
    /\ chosen = NoTemplates

\* ------------------------------------------------------------------ Spec: the operations

DoUpdateMatches(match_urls) ==
    /\ now < MaxTime
    /\ LET r == UpdateMatches(matches, match_urls, now + 1)
       IN /\ matches' = r.matches
          /\ now' = now + 1
          /\ last' = [op |-> "update_matches",
                      arg |-> CurrentUuids(match_urls),
                      links |-> Len(match_urls), ret |-> r.ret,
                      again |-> (last.op = "update_matches"
                                 /\ last.arg = CurrentUuids(match_urls))]
          /\ Track(r.matches, {})
    /\ pre' = matches
    /\ UNCHANGED <<execution_history, disk, cycleVars>>

DoRemoveStaleMatches(current_uuids) ==
    /\ LET r == RemoveStaleMatches(matches, current_uuids)
       IN /\ matches' = r.matches
          /\ last' = [op |-> "remove_stale_matches", arg |-> current_uuids,
                      ret |-> r.ret]
          /\ Track(r.matches, {})
    /\ pre' = matches
    /\ UNCHANGED <<execution_history, disk, now, cycleVars>>

DoUpdateCourtAssignment(uuid, court_title, assigned, match_completed) ==
    /\ now + (IF Truthy(match_completed) THEN 2 ELSE 1) <= MaxTime
    /\ LET r == UpdateCourtAssignment(matches, uuid, court_title, assigned,
                                      match_completed, now)
       IN /\ matches' = r.matches
          /\ now' = r.now
          /\ last' = [op |-> "update_court_assignment", arg |-> uuid,
                      assigned |-> assigned,
                      match_completed |-> match_completed]
          /\ Track(r.matches,
                   IF Truthy(match_completed) /\ uuid \in DOMAIN matches
                      /\ uuid \notin everPending
                   THEN {uuid} ELSE {})
    /\ pre' = matches
    /\ UNCHANGED <<execution_history, disk, cycleVars>>

DoMarkAsNotified(uuid) ==
    /\ now < MaxTime
    /\ LET r == MarkAsNotified(matches, uuid, now)
       IN /\ matches' = r.matches
          /\ now' = r.now
          /\ last' = [op |-> "mark_as_notified", arg |-> uuid]
          /\ Track(r.matches, {})
    /\ pre' = matches
    /\ UNCHANGED <<execution_history, disk, cycleVars>>

\* process_pending_notifications: a dispatch for every pending record, then
\* save_config; nothing is saved when nothing is pending (lines 234-236).
DoProcessPendingNotifications(sinkOk) ==
    /\ LET pending == PendingNotifications(matches)
           r == NotifyAll([matches |-> matches, sent_count |-> 0, now |-> now],
                          pending, sinkOk)
       IN /\ r.now <= MaxTime
          /\ matches' = r.matches
          /\ now' = r.now
          /\ disk' = IF pending = {} THEN disk
                     ELSE SaveConfig(r.matches, execution_history)
          /\ last' = [op |-> "process_pending_notifications",
                      arg |-> pending,
                      ret |-> r.sent_count]
          /\ Track(r.matches, {})
    /\ pre' = matches
    /\ UNCHANGED <<execution_history, cycleVars>>

DoSaveConfig ==
    /\ disk' = SaveConfig(matches, execution_history)
    /\ last' = [op |-> "save_config"]
    /\ pre' = matches
    /\ UNCHANGED <<matches, execution_history, now, cycleVars,
                   everPending, suppressed>>

\* The process ends (or dies) and a new one constructs its ConfigManager from
\* the persisted file.
Restart ==
    /\ matches' = LoadMatches(disk)
    /\ execution_history' = disk.execution_history
    /\ last' = [op |-> "restart"]
    /\ pre' = matches
    /\ everPending' = PendingNotifications(LoadMatches(disk))
    /\ suppressed' = {}
    /\ UNCHANGED <<disk, now, cycleVars>>

CourtTitles == {"", "SC1"}
CompletedMarkers == {None, "2025-01-01 10:00:00"}

Next ==
    \/ \E match_urls \in UrlLists(MaxUrls) : DoUpdateMatches(match_urls)
    \/ \E current_uuids \in SUBSET Ids : DoRemoveStaleMatches(current_uuids)
    \/ \E uuid \in Ids, court_title \in CourtTitles, assigned \in BOOLEAN,
          match_completed \in CompletedMarkers :
          DoUpdateCourtAssignment(uuid, court_title, assigned, match_completed)
    \/ \E uuid \in Ids : DoMarkAsNotified(uuid)
    \/ \E sinkOk \in [PendingNotifications(matches) -> BOOLEAN] :
          DoProcessPendingNotifications(sinkOk)

Spec == Init /\ [][Next]_vars

\* The same operations, with save_config and restarts of the process.
NextRestart ==
    \/ Next
    \/ DoSaveConfig
    \/ Restart

SpecRestart == Init /\ [][NextRestart]_vars

\* ------------------------------------------------------------------ config.py: the history

\* record_execution keeps the last 100 records (lines 185-186).
HistoryLimit == 100

\* h[-n:]
LastNKeepsOldest(h, n) == IF Len(h) <= n THEN h ELSE SubSeq(h, 1, n)

LastN(h, n) == IF Len(h) <= n THEN h ELSE SubSeq(h, Len(h) - n + 1, Len(h))

\* The keyword arguments of record_execution at their defaults (lines 167-168).
DefaultTallies ==
    [court_assignments_checked |-> 0, court_assignments_found |-> 0,
     notifications_sent |-> 0, stale_matches_removed |-> 0]

\* record_execution(matches_found, match_counts, **tallies) at clock reading
\* timestamp.
RecordExecution(h, timestamp, matches_found, match_counts, tallies) ==
    LastN(Append(h, [timestamp |-> timestamp,
                     matches_found |-> matches_found,
                     new_matches |-> match_counts.new_matches,
                     future_matches |-> match_counts.future_matches,
                     assigned_matches |-> match_counts.assigned_matches,
                     court_assignments_checked |->
                         tallies.court_assignments_checked,
                     court_assignments_found |-> tallies.court_assignments_found,
                     notifications_sent |-> tallies.notifications_sent,
                     stale_matches_removed |-> tallies.stale_matches_removed]),
          HistoryLimit)

\* cleanup_old_execution_history(max_records): the history afterwards and the
\* number of records removed.
CleanupOldExecutionHistory(h, max_records) ==
    IF Len(h) <= max_records
    THEN [history |-> h, ret |-> 0]
    ELSE [history |-> LastN(h, max_records), ret |-> Len(h) - max_records]

\* load_config, lines 76-90: one persisted execution entry; an entry in the
\* old layout (with 'completed_matches') is reshaped.
LoadExecutionRecord(rec) ==
    IF "completed_matches" \in DOMAIN rec
    THEN [timestamp |-> rec.timestamp,
          matches_found |-> rec.matches_found,
          new_matches |-> rec.new_matches,
          future_matches |-> IF "unknown_matches" \in DOMAIN rec
                             THEN rec.unknown_matches ELSE 0,
          assigned_matches |-> rec.completed_matches,
          court_assignments_checked |-> 0, court_assignments_found |-> 0,
          notifications_sent |-> 0, stale_matches_removed |-> 0]
    ELSE rec

LoadHistory(file) ==
    [i \in DOMAIN file.execution_history |->
        LoadExecutionRecord(file.execution_history[i])]

\* The fields of the dataclass ExecutionRecord, and those without a default.
ExecutionRecordFields ==
    {"timestamp", "matches_found", "new_matches", "future_matches",
     "assigned_matches", "court_assignments_checked",
     "court_assignments_found", "notifications_sent", "stale_matches_removed"}

ExecutionRecordRequired ==
    {"timestamp", "matches_found", "new_matches", "future_matches",
     "assigned_matches"}

\* load_config, lines 78-90: the exception one persisted execution entry
\* raises, or "none": KeyError on an entry in the old layout that lacks one
\* of the three keys read with [] (lines 81-83), TypeError from
\* ExecutionRecord(**record_data) on an entry in the new layout with a missing
\* or an unexpected field.
ExecutionEntryException(rec) ==
    IF "completed_matches" \in DOMAIN rec
    THEN IF {"timestamp", "matches_found", "new_matches"} \subseteq DOMAIN rec
         THEN "none" ELSE "KeyError"
    ELSE IF ExecutionRecordRequired \subseteq DOMAIN rec
            /\ DOMAIN rec \subseteq ExecutionRecordFields
         THEN "none" ELSE "TypeError"

\* The exception the try block of load_config raises on a file, or "none":
\* json.load on a file that is not JSON (line 61), data.get on a JSON array
\* (line 65), then the entries.
LoadException(file) ==
    LET h == file.execution_history
        bad == {i \in DOMAIN h : ExecutionEntryException(h[i]) # "none"}
    IN IF file.shape = "not_json" THEN "JSONDecodeError"
       ELSE IF file.shape = "array" THEN "AttributeError"
       ELSE IF \E u \in DOMAIN file.matches : MatchInfoRaises(file.matches[u])
       THEN "TypeError"
       ELSE IF bad # {}
       THEN ExecutionEntryException(
                h[CHOOSE i \in bad : \A j \in bad : i <= j])
       ELSE "none"

\* The except clause of load_config (line 92).
LoadCaught == {"JSONDecodeError", "KeyError", "TypeError"}

\* load_config on a file: the exception that leaves it (raised, "none" when
\* it returns), the store and the history it leaves, and the file afterwards.
\* Without a file it writes the empty store (lines 55-57); on a caught
\* exception it empties the store and the history (lines 95-96).
LoadConfig(file) ==
    LET e == LoadException(file)
    IN IF ~file.exists
       THEN [raised |-> "none", matches |-> EmptyMatches,
             execution_history |-> <<>>,
             disk |-> SaveConfig(EmptyMatches, <<>>)]
       ELSE IF e = "none"
       THEN [raised |-> "none", matches |-> LoadMatches(file),
             execution_history |-> LoadHistory(file), disk |-> file]
       ELSE [raised |-> IF e \in LoadCaught THEN "none" ELSE e,
             matches |-> EmptyMatches, execution_history |-> <<>>,
             disk |-> file]

\* ------------------------------------------------------------------ SpecLoad: load_config

\* asdict of a MatchInfo with the given status, as save_config writes it.
PersistedMatch(uuid, status) ==
    [MatchInfo(uuid, MatchUrl(uuid), 1, 1, status)
        EXCEPT !.court_assigned = (status \in {"assigned", "current"}),
               !.court_title = IF status \in {"assigned", "current"}
                               THEN "SC1" ELSE None]

\* An entry written before the court fields existed: the required fields only.
OldMatch(uuid, status) ==
    [uuid |-> uuid, url |-> MatchUrl(uuid), first_seen |-> 1, last_seen |-> 1,
     status |-> status]

\* The entries a file can hold for one uuid: entries of today's layout under
\* the current and the retired status labels, entries of the old layout, an
\* entry without its url and an entry with a field MatchInfo does not have.
PersistedEntries(uuid) ==
    {PersistedMatch(uuid, status) :
        status \in {"future", "assigned", "current", "unknown"}}
    \cup {OldMatch(uuid, status) : status \in {"current", "unknown"}}
    \cup {[uuid |-> uuid, first_seen |-> 1, last_seen |-> 1,
           status |-> "future"],
          [uuid |-> uuid, url |-> MatchUrl(uuid), first_seen |-> 1,
           last_seen |-> 1, status |-> "future", partner_name |-> "Sam"]}

\* The execution histories a file can hold: none, one entry of today's
\* layout, one of the old layout, one of the old layout without its
\* timestamp and one of today's layout without assigned_matches.
PersistedHistories ==
    {<<>>,
     <<[timestamp |-> 1, matches_found |-> 1, new_matches |-> 1,
        future_matches |-> 1, assigned_matches |-> 0,
        court_assignments_checked |-> 0, court_assignments_found |-> 0,
        notifications_sent |-> 0, stale_matches_removed |-> 0]>>,
     <<[timestamp |-> 1, matches_found |-> 1, new_matches |-> 1,
        unknown_matches |-> 1, completed_matches |-> 0]>>,
     <<[matches_found |-> 1, new_matches |-> 1, unknown_matches |-> 1,
        completed_matches |-> 0]>>,
     <<[timestamp |-> 1, matches_found |-> 1, new_matches |-> 1,
        future_matches |-> 1]>>}

\* The 'matches' objects a file can hold.
PersistedStores ==
    UNION {{m \in [S -> UNION {PersistedEntries(u) : u \in S}] :
               \A u \in S : m[u] \in PersistedEntries(u)} : S \in SUBSET Ids}

\* The files load_config can find: none, one that is not JSON, a JSON array,
\* and the JSON objects over the stores and the histories above.
Files ==
    {NoFile,
     [EmptyFile EXCEPT !.shape = "not_json"],
     [EmptyFile EXCEPT !.shape = "array"]}
    \cup {[exists |-> TRUE, shape |-> "object", matches |-> m,
           execution_history |-> h] :
             m \in PersistedStores, h \in PersistedHistories}

InitLoad ==
    /\ matches = EmptyMatches
    /\ execution_history = <<>>
    /\ disk \in Files
    /\ now = 0
    /\ pc = "file"
    /\ frame = NoFrame
    /\ cycles = 0
    /\ last = [op |-> "init"]
    /\ pre = EmptyMatches
    /\ everPending = {}
    /\ suppressed = {}
    /\ failed = NoFailures
    /\ reported = {}
    /\ attempted = <<>>
    /\ str_hash = NoHash
    /\ chosen = NoTemplates

\* ConfigManager() (lines 47-51): the empty store, then load_config. An
\* exception that leaves load_config leaves the constructor and main().
DoLoadConfig ==
    /\ pc = "file"
    /\ LET r == LoadConfig(disk)
       IN /\ matches' = r.matches
          /\ execution_history' = r.execution_history
          /\ disk' = r.disk
          /\ pc' = IF r.raised = "none" THEN "loaded" ELSE "crashed"
          /\ last' = [op |-> "load_config", file |-> disk,
                      raised |-> r.raised]
    /\ pre' = matches
    /\ UNCHANGED <<now, frame, cycles, storeHistory, failed, reported,
                   attempted, notifyVars>>

\* The first store operation of a new process, get_pending_notifications.
DoGetPendingNotifications ==
    /\ pc = "loaded"
    /\ pc' = "running"
    /\ last' = [op |-> "get_pending_notifications",
                ret |-> PendingNotifications(matches)]
    /\ pre' = matches
    /\ UNCHANGED <<matches, execution_history, disk, now, frame, cycles,
                   storeHistory, failed, reported, attempted, notifyVars>>

NextLoad ==
    \/ DoLoadConfig
    \/ DoGetPendingNotifications

SpecLoad == InitLoad /\ [][NextLoad]_vars

\* ------------------------------------------------------------------ api_client.py

\* The value of a team_<side>_player_<n>_name key of the match data: no such
\* key, null, or a string. The strings are empty, blank, padded or plain, and
\* two of them hold 'adam' in some case.
NoKey == "<no key>"

RawNames ==
    {NoKey, None, "", " ", "Adam Harvey", " ADAM B ", " Sam ", "Bo"}

\* The player names of the match data: two keys for each team.
MatchData == [team_one : [1..2 -> RawNames], team_two : [1..2 -> RawNames]]

\* The names the court checks of a cycle answer with.
CycleNames ==
    [team_one |-> <<"Adam Harvey", " Sam ">>, team_two |-> <<"Bo", NoKey>>]

\* What the results API answers for one match: a request error, a body that
\* is not JSON, a body without match data, a body whose 'data' is an object
\* or null, or match data with its court_title (a string or not), its player
\* names (strings or not) and its match_completed.
Payload(kind, court_title, court_title_is_str, names_are_str, match_completed) ==
    [kind |-> kind, court_title |-> court_title,
     court_title_is_str |-> court_title_is_str,
     names_are_str |-> names_are_str, names |-> CycleNames,
     match_completed |-> match_completed]

ApiPayloads ==
    {Payload("request_error", "", TRUE, TRUE, None),
     Payload("not_json", "", TRUE, TRUE, None),
     Payload("no_data", "", TRUE, TRUE, None),
     Payload("data_object", "", TRUE, TRUE, None),
     Payload("data_null", "", TRUE, TRUE, None),
     Payload("data", "", TRUE, TRUE, None),
     Payload("data", "SC1", TRUE, TRUE, None),
     Payload("data", "SC1", TRUE, TRUE, "2025-01-01 10:00:00"),
     Payload("data", "5", FALSE, TRUE, None),
     Payload("data", "SC1", TRUE, FALSE, None)}

\* str.strip on the court titles and the names of the model.
Strip(s) ==
    CASE s = " " -> ""
      [] s = " ADAM B " -> "ADAM B"
      [] s = " Sam " -> "Sam"
      [] OTHER -> s

\* 'adam' in player.lower() (lines 184, 186, 195, 203).
HasAdam(player) == Strip(player) \in {"Adam Harvey", "ADAM B"}

\* Python's None for the optional list of names, and a list of names.
NoList == [is_none |-> TRUE, items |-> <<>>]

ListOf(items) == [is_none |-> FALSE, items |-> items]

\* Lines 164-178: the names of one team, stripped, in the order of the keys;
\* a key that is missing, null, empty or blank gives no name.
RECURSIVE TeamPlayers(_)
TeamPlayers(keys) ==
    IF keys = <<>> THEN <<>>
    ELSE LET value == Head(keys)
             name == IF value \in {NoKey, None, ""} THEN "" ELSE Strip(value)
         IN (IF name # "" THEN <<name>> ELSE <<>>) \o TeamPlayers(Tail(keys))

\* Lines 194-197, 202-205: the first player of the team without 'adam' in the
\* name, or None.
PartnerOf(team_players) ==
    LET others == {i \in DOMAIN team_players : ~HasAdam(team_players[i])}
    IN IF others = {} THEN None
       ELSE team_players[CHOOSE i \in others : \A j \in others : i <= j]

\* Lines 181-205: the tracked team, team one before team two, then the
\* partner and the opponents; (None, None) when the tracked first name, which
\* is written in the code, is in no name.
RosterOfPrefersTeamTwo(team_one_players, team_two_players) ==
    IF \E i \in DOMAIN team_two_players : HasAdam(team_two_players[i])
    THEN [partner_name |-> PartnerOf(team_two_players),
          opponent_names |-> IF team_one_players # <<>>
                             THEN ListOf(team_one_players) ELSE NoList]
    ELSE IF \E i \in DOMAIN team_one_players : HasAdam(team_one_players[i])
         THEN [partner_name |-> PartnerOf(team_one_players),
               opponent_names |-> IF team_two_players # <<>>
                                  THEN ListOf(team_two_players) ELSE NoList]
         ELSE [partner_name |-> None, opponent_names |-> NoList]

RosterOf(team_one_players, team_two_players) ==
    IF \E i \in DOMAIN team_one_players : HasAdam(team_one_players[i])
    THEN [partner_name |-> PartnerOf(team_one_players),
          opponent_names |-> IF team_two_players # <<>>
                             THEN ListOf(team_two_players) ELSE NoList]
    ELSE IF \E i \in DOMAIN team_two_players : HasAdam(team_two_players[i])
         THEN [partner_name |-> PartnerOf(team_two_players),
               opponent_names |-> IF team_one_players # <<>>
                                  THEN ListOf(team_one_players) ELSE NoList]
         ELSE [partner_name |-> None, opponent_names |-> NoList]

\* _extract_player_names(match_data), lines 143-205.
ExtractPlayerNames(match_data) ==
    RosterOf(TeamPlayers(match_data.team_one),
             TeamPlayers(match_data.team_two))

\* The exception the try block of get_match_info raises on a payload, or
\* "none": raise_for_status (line 61), response.json() (line 63),
\* len(data['data']) on null (line 66), data['data'][0] on an object (line
\* 67), court_title.strip() on a truthy value that is not a string (line 72)
\* and match_data[key].strip() on a name that is not a string (lines 167,
\* 175).
ExceptionIn(payload) ==
    CASE payload.kind = "request_error" -> "RequestException"
      [] payload.kind = "not_json" -> "ValueError"
      [] payload.kind = "data_null" -> "TypeError"
      [] payload.kind = "data_object" -> "KeyError"
      [] payload.kind = "data" /\ payload.court_title # ""
            /\ ~payload.court_title_is_str -> "AttributeError"
      [] payload.kind = "data" /\ ~payload.names_are_str -> "AttributeError"
      [] OTHER -> "none"

\* The except clauses of get_match_info (lines 95, 102).
Caught == {"RequestException", "KeyError", "IndexError", "ValueError"}

\* get_match_info(uuid) on the payload the API answers with: the
\* MatchApiResult returned, or the exception that leaves the call (raised).
GetMatchInfo(uuid, payload) ==
    LET e == ExceptionIn(payload)
        court_assigned ==
            payload.court_title # "" /\ Strip(payload.court_title) # ""
        names == ExtractPlayerNames(payload.names)
    IN IF e = "none" /\ payload.kind = "data"
       THEN [uuid |-> uuid, success |-> TRUE,
             court_assigned |-> court_assigned,
             court_title |-> IF court_assigned THEN payload.court_title
                             ELSE None,
             match_completed |-> payload.match_completed,
             partner_name |-> names.partner_name,
             opponent_names |-> names.opponent_names, raised |-> "none"]
       ELSE [uuid |-> uuid, success |-> FALSE, court_assigned |-> FALSE,
             court_title |-> None, match_completed |-> None,
             partner_name |-> None, opponent_names |-> NoList,
             raised |-> IF e \in Caught THEN "none" ELSE e]

\* check_multiple_matches(uuids): one result per uuid, in order, unless a
\* get_match_info raises, which ends the call (line 125 is not in a try).
CheckMultipleMatches(uuids, payloadOf) ==
    LET results == [i \in DOMAIN uuids |->
                       GetMatchInfo(uuids[i], payloadOf[uuids[i]])]
    IN IF \E i \in DOMAIN results : results[i].raised # "none"
       THEN [raised |-> TRUE, results |-> <<>>]
       ELSE [raised |-> FALSE, results |-> results]

\* ------------------------------------------------------------------ scraper.py

\* check_court_assignments, lines 160-172: one iteration of the loop over the
\* results. acc = [matches, now, court_assigned, errors].
ApplyResultStampsFailures(acc, result) ==
    LET upd == UpdateCourtAssignment(acc.matches, result.uuid,
                                     OrElse(result.court_title, ""),
                                     result.court_assigned, None, acc.now)
    IN IF result.success
       THEN [matches |-> upd.matches, now |-> upd.now,
             court_assigned |-> acc.court_assigned
                                + (IF result.court_assigned THEN 1 ELSE 0),
             errors |-> acc.errors]
       ELSE [matches |-> upd.matches, now |-> upd.now,
             court_assigned |-> acc.court_assigned,
             errors |-> acc.errors + 1]

ApplyResult(acc, result) ==
    IF result.success
    THEN LET upd == UpdateCourtAssignment(acc.matches, result.uuid,
                                          OrElse(result.court_title, ""),
                                          result.court_assigned, None, acc.now)
         IN [matches |-> upd.matches, now |-> upd.now,
             court_assigned |-> acc.court_assigned
                                + (IF result.court_assigned THEN 1 ELSE 0),
             errors |-> acc.errors]
    ELSE [acc EXCEPT !.errors = acc.errors + 1]

RECURSIVE ApplyResults(_, _, _)
ApplyResults(acc, results, i) ==
    IF i > Len(results) THEN acc
    ELSE ApplyResults(ApplyResult(acc, results[i]), results, i + 1)

\* check_court_assignments(uuids) with the API answering payloadOf[uuid]; t is
\* the clock before the call: the results check_multiple_matches returned,
\* the store and the clock afterwards and the counts returned. An exception
\* that leaves check_multiple_matches (line 155) leaves this call too, before
\* any record is updated.
CheckCourtAssignments(m, uuids, payloadOf, t) ==
    IF uuids = <<>>
    THEN [raised |-> FALSE, results |-> <<>>, matches |-> m, now |-> t,
          ret |-> NoStats]
    ELSE LET checked == CheckMultipleMatches(uuids, payloadOf)
             acc == ApplyResults([matches |-> m, now |-> t,
                                  court_assigned |-> 0, errors |-> 0],
                                 checked.results, 1)
         IN IF checked.raised
            THEN [raised |-> TRUE, results |-> <<>>, matches |-> m, now |-> t,
                  ret |-> NoStats]
            ELSE [raised |-> FALSE, results |-> checked.results,
                  matches |-> acc.matches, now |-> acc.now,
                  ret |-> [checked |-> Len(uuids),
                           court_assigned |-> acc.court_assigned,
                           errors |-> acc.errors]]

\* The orders a dict or a set of these uuids can be iterated in.
Orders(S) == {q \in [1..Cardinality(S) -> S] : Range(q) = S}

\* ------------------------------------------------------------------ SpecCycle: main()

InitCycle ==
    /\ matches = EmptyMatches
    /\ execution_history = <<>>
    /\ disk = NoFile
    /\ now = 0
    /\ pc = "idle"
    /\ frame = NoFrame
    /\ cycles = 0
    /\ last = [op |-> "init"]
    /\ pre = EmptyMatches
    /\ everPending = {}
    /\ suppressed = {}
    /\ failed = NoFailures
    /\ reported = {}
    /\ attempted = <<>>
    /\ str_hash = NoHash
    /\ chosen = NoTemplates

\* The failures counted for the records of store m2.
FailedIn(m2, f) == [u \in Ids |-> IF u \in DOMAIN m2 THEN f[u] ELSE 0]

\* ConfigManager(): load_config reads the persisted file, or writes an empty
\* one when there is none (lines 55-57).
Construct ==
    /\ matches' = LoadMatches(disk)
    /\ execution_history' = LoadHistory(disk)
    /\ disk' = IF disk.exists THEN disk ELSE SaveConfig(EmptyMatches, <<>>)
    /\ pre' = matches
    /\ failed' = FailedIn(LoadMatches(disk), failed)
    /\ reported' = reported \cap DOMAIN disk.matches

\* main(), lines 248-251, when config.json gives the bot id and the player
\* slug: a new process starts its cycle.
Start ==
    /\ pc \in {"idle", "done", "crashed"}
    /\ cycles < MaxCycles
    /\ Construct
    /\ pc' = "fetch"
    /\ cycles' = cycles + 1
    /\ frame' = NoFrame
    /\ attempted' = <<>>
    /\ last' = [op |-> "start"]
    /\ UNCHANGED <<now, storeHistory, notifyVars>>

\* main(), lines 248-250, when config.json or one of the two entries is
\* missing: NotificationHandler() raises (_load_bot_id, _load_player_slug)
\* after ConfigManager() has loaded the file, and the process ends.
StartupFailsThenRuns ==
    /\ pc \in {"idle", "done", "crashed"}
    /\ cycles < MaxCycles
    /\ Construct
    /\ pc' = "fetch"
    /\ cycles' = cycles + 1
    /\ frame' = NoFrame
    /\ attempted' = <<>>
    /\ last' = [op |-> "startup_failed"]
    /\ UNCHANGED <<now, storeHistory, notifyVars>>

StartupFails ==
    /\ pc \in {"idle", "done", "crashed"}
    /\ cycles < MaxCycles
    /\ Construct
    /\ pc' = "idle"
    /\ cycles' = cycles + 1
    /\ frame' = NoFrame
    /\ attempted' = <<>>
    /\ last' = [op |-> "startup_failed"]
    /\ UNCHANGED <<now, storeHistory, notifyVars>>

\* get_player_page returns None: the cycle returns the empty list (lines
\* 199-201) and the process ends.
FetchFailsThenPrunes ==
    /\ pc = "fetch"
    /\ pc' = "prune"
    /\ last' = [op |-> "fetch_failed"]
    /\ pre' = matches
    /\ UNCHANGED <<matches, execution_history, disk, now, frame, cycles,
                   storeHistory, failed, reported, attempted, notifyVars>>

FetchFails ==
    /\ pc = "fetch"
    /\ pc' = "idle"
    /\ last' = [op |-> "fetch_failed"]
    /\ pre' = matches
    /\ UNCHANGED <<matches, execution_history, disk, now, frame, cycles,
                   storeHistory, failed, reported, attempted, notifyVars>>

\* Lines 199-204: the page was fetched and shows these Results links.
Fetch(results_urls) ==
    /\ pc = "fetch"
    /\ pc' = "prune"
    /\ frame' = [frame EXCEPT !.results_urls = results_urls]
    /\ last' = [op |-> "fetch", arg |-> results_urls]
    /\ pre' = matches
    /\ UNCHANGED <<matches, execution_history, disk, now, cycles,
                   storeHistory, failed, reported, attempted, notifyVars>>

\* Lines 207-211.
Prune ==
    /\ pc = "prune"
    /\ LET current_uuids == CurrentUuids(frame.results_urls)
           r == RemoveStaleMatches(matches, current_uuids)
       IN /\ matches' = r.matches
          /\ frame' = [frame EXCEPT !.stale_removed = r.ret]
          /\ last' = [op |-> "remove_stale_matches", arg |-> current_uuids,
                      ret |-> r.ret]
          /\ failed' = FailedIn(r.matches, failed)
          /\ reported' = reported \cap DOMAIN r.matches
    /\ pc' = "reconcile"
    /\ pre' = matches
    /\ UNCHANGED <<execution_history, disk, now, cycles, storeHistory,
                   attempted, notifyVars>>

\* Line 214.
Reconcile ==
    /\ pc = "reconcile"
    /\ LET r == UpdateMatches(matches, frame.results_urls, now + 1)
       IN /\ matches' = r.matches
          /\ now' = now + 1
          /\ frame' = [frame EXCEPT !.match_counts = r.ret]
          /\ last' = [op |-> "update_matches",
                      arg |-> CurrentUuids(frame.results_urls),
                      links |-> Len(frame.results_urls), ret |-> r.ret,
                      again |-> FALSE]
    /\ pc' = "check"
    /\ pre' = matches
    /\ UNCHANGED <<execution_history, disk, cycles, storeHistory, failed,
                   reported, attempted, notifyVars>>

\* Lines 217-218: the uuids of the FUTURE records that are on the page.
ToCheck ==
    {u \in MatchesNeedingCourtCheck(matches) :
        u \in CurrentUuids(frame.results_urls)}

\* What the results of a court check said of each uuid: whether the check
\* succeeded, whether it found a court for a match that is not completed,
\* and the names it extracted.
Answers(results) ==
    [i \in DOMAIN results |->
        [uuid |-> results[i].uuid, success |-> results[i].success,
         assigned |-> /\ results[i].success
                      /\ results[i].court_assigned
                      /\ ~Truthy(results[i].match_completed),
         partner_name |-> results[i].partner_name,
         opponent_names |-> results[i].opponent_names]]

\* Lines 217-223: the court check of the FUTURE records among the observed
\* uuids, then cleanup_old_execution_history. An exception that leaves
\* check_court_assignments is caught nowhere (lines 220, 257): the process
\* ends with a traceback and the steps after line 220 do not run.
Check(uuids_to_check, payloadOf) ==
    /\ pc = "check"
    /\ Range(uuids_to_check) = ToCheck
    /\ LET r == CheckCourtAssignments(matches, uuids_to_check, payloadOf, now)
           cleaned == CleanupOldExecutionHistory(execution_history, HistoryLimit)
       IN /\ matches' = r.matches
          /\ now' = r.now
          /\ execution_history' = IF r.raised THEN execution_history
                                  ELSE cleaned.history
          /\ frame' = IF r.raised THEN frame
                      ELSE [frame EXCEPT !.court_stats = r.ret,
                                         !.history_cleaned = cleaned.ret]
          /\ last' = [op |-> "check_court_assignments",
                      arg |-> uuids_to_check, raised |-> r.raised,
                      results |-> [i \in DOMAIN r.results |->
                                      r.results[i].uuid],
                      answers |-> Answers(r.results), ret |-> r.ret]
          /\ reported' = IF r.raised THEN reported
                         ELSE reported \cup
                                {u \in Range(uuids_to_check) :
                                    LET result == GetMatchInfo(u, payloadOf[u])
                                    IN result.success /\ result.court_assigned
                                       /\ Truthy(result.match_completed)}
          /\ pc' = IF r.raised THEN "crashed" ELSE "notify"
    /\ pre' = matches
    /\ UNCHANGED <<disk, cycles, storeHistory, failed, attempted, notifyVars>>

\* process_pending_notifications, lines 232-240: the pending records, in the
\* order of the dict; nothing more happens when there is none.
BeginNotifications(pending_matches) ==
    /\ pc = "notify"
    /\ Range(pending_matches) = PendingNotifications(matches)
    /\ pc' = IF pending_matches = <<>> THEN "record" ELSE "dispatch"
    /\ frame' = [frame EXCEPT !.pending = pending_matches, !.i = 1,
                              !.sent_count = 0]
    /\ last' = [op |-> "get_pending_notifications", ret |-> pending_matches]
    /\ pre' = matches
    /\ UNCHANGED <<matches, execution_history, disk, now, cycles,
                   storeHistory, failed, reported, attempted, notifyVars>>

\* Lines 241-245: send_notification for the next pending record, with the
\* sink ready to accept a post (sinkOk) or not, and mark_as_notified when it
\* returns True. An exception that left send_notification would leave the
\* loop, the cycle and the process (nothing around lines 242, 226, 257
\* catches it).
Dispatch(sinkOk) ==
    /\ pc = "dispatch"
    /\ frame.i <= Len(frame.pending)
    /\ LET uuid == frame.pending[frame.i]
           raised == SendNotificationRaises(matches[uuid], sinkOk)
           sent == ~raised /\ SendNotification(matches[uuid], sinkOk)
           r == IF raised
                THEN [matches |-> matches, sent_count |-> frame.sent_count,
                      now |-> now]
                ELSE NotifyOne([matches |-> matches,
                                sent_count |-> frame.sent_count, now |-> now],
                               uuid, sinkOk)
       IN /\ matches' = r.matches
          /\ now' = r.now
          /\ frame' = [frame EXCEPT !.i = frame.i + 1,
                                    !.sent_count = r.sent_count]
          /\ last' = [op |-> "send_notification", arg |-> uuid,
                      sinkOk |-> sinkOk, ret |-> sent]
          /\ failed' = [failed EXCEPT ![uuid] = IF sent THEN 0 ELSE @ + 1]
          /\ attempted' = Append(attempted, uuid)
          /\ pc' = IF raised THEN "crashed" ELSE pc
    /\ pre' = matches
    /\ UNCHANGED <<execution_history, disk, cycles, storeHistory, reported,
                   notifyVars>>

\* Line 248: save_config after the loop.
FinishNotifications ==
    /\ pc = "dispatch"
    /\ frame.i > Len(frame.pending)
    /\ disk' = SaveConfig(matches, execution_history)
    /\ pc' = "record"
    /\ last' = [op |-> "process_pending_notifications",
                arg |-> Range(frame.pending), ret |-> frame.sent_count]
    /\ pre' = matches
    /\ UNCHANGED <<matches, execution_history, now, frame, cycles,
                   storeHistory, failed, reported, attempted, notifyVars>>

\* Lines 229-232: record_execution(len(results_urls), match_counts), then
\* save_config; the process ends after main() has printed its summary.
RecordAndSave ==
    /\ pc = "record"
    /\ LET h == RecordExecution(execution_history, now + 1,
                                Len(frame.results_urls), frame.match_counts,
                                DefaultTallies)
       IN /\ execution_history' = h
          /\ disk' = SaveConfig(matches, h)
    /\ now' = now + 1
    /\ pc' = "done"
    /\ last' = [op |-> "record_execution"]
    /\ pre' = matches
    /\ UNCHANGED <<matches, frame, cycles, storeHistory, failed, reported,
                   attempted, notifyVars>>

\* The links filter_results_links lets through: Results links to a match.
PageUrls == {MatchUrl(u) : u \in Ids}

\* An order of the ids, to list the links of a page in.
IdRank ==
    CHOOSE f \in [Ids -> 1..Cardinality(Ids)] :
        \A u, v \in Ids : u # v => f[u] # f[v]

\* The lists of at most n Results links a page can give, one list for every
\* multiset of links: the cycle uses the list through set(uuids) (line 208),
\* 'match.uuid in uuids' (line 218), update_matches, which makes a set of it
\* too, and len(results_urls) (line 229), so the order of the links has no
\* effect.
PageLists(n) ==
    {s \in SeqsUpTo(PageUrls, n) :
        \A i, j \in DOMAIN s :
            i < j => IdRank[s[i].uuid] <= IdRank[s[j].uuid]}

NextCycle ==
    \/ Start
    \/ StartupFails
    \/ FetchFails
    \/ \E results_urls \in PageLists(MaxUrls) : Fetch(results_urls)
    \/ Prune
    \/ Reconcile
    \/ /\ pc = "check"
       /\ \E uuids_to_check \in Orders(ToCheck) :
             \E payloadOf \in [ToCheck -> ApiPayloads] :
                Check(uuids_to_check, payloadOf)
    \/ /\ pc = "notify"
       /\ \E pending_matches \in Orders(PendingNotifications(matches)) :
             BeginNotifications(pending_matches)
    \/ \E sinkOk \in BOOLEAN : Dispatch(sinkOk)
    \/ FinishNotifications
    \/ RecordAndSave

SpecCycle == InitCycle /\ [][NextCycle]_vars

\* ------------------------------------------------------------------ youtube_checker.py

\* What the live-video query of _check_youtube_api can meet: config.json is
\* missing, it holds no API key, the request fails, the body is not JSON,
\* an item lacks 'snippet' or 'id', no item is returned, the items are live
\* streams of other courts, or one is the live stream of this court.
StreamOutcomes ==
    {"no_config_file", "no_api_key", "http_error", "not_json", "malformed",
     "no_items", "other_court", "live"}

\* The exception raised in the try block of _check_youtube_api (lines
\* 39-84), or "none": _get_api_key (lines 95-127), raise_for_status,
\* response.json(), item['snippet'] or item['id'].
StreamException(outcome) ==
    CASE outcome = "no_config_file" -> "FileNotFoundError"
      [] outcome = "no_api_key" -> "RuntimeError"
      [] outcome = "http_error" -> "HTTPError"
      [] outcome = "not_json" -> "ValueError"
      [] outcome = "malformed" -> "KeyError"
      [] OTHER -> "none"

\* The except clause of _check_youtube_api (line 86): Exception.
StreamCaught ==
    {"FileNotFoundError", "RuntimeError", "HTTPError", "ValueError",
     "KeyError", "TypeError", "AttributeError"}

StreamUrl == "https://www.youtube.com/watch?v=live"

\* _check_youtube_api(court_assignment), lines 28-93: the dict returned, or
\* the exception that leaves the call (raised).
CheckYoutubeApi(court_assignment, outcome) ==
    LET e == StreamException(outcome)
    IN IF e # "none"
       THEN [is_live |-> FALSE, stream_url |-> None,
             error |-> IF e \in StreamCaught THEN "YouTube API error" ELSE None,
             raised |-> IF e \in StreamCaught THEN "none" ELSE e]
       ELSE IF outcome = "live"
            THEN [is_live |-> TRUE, stream_url |-> StreamUrl, error |-> None,
                  raised |-> "none"]
            ELSE [is_live |-> FALSE, stream_url |-> None, error |-> None,
                  raised |-> "none"]

\* check_court_stream(court_assignment), lines 129-146.
CheckCourtStream(court_assignment, outcome) ==
    CheckYoutubeApi(court_assignment, outcome)

\* get_pickleball_tv_message(court_assignment), lines 148-160.
GetPickleballTvMessage(court_assignment) ==
    IF court_assignment = "CC" THEN " (free to watch on PickleballTV)"
    ELSE " (on PickleballTV - login required)"

\* ------------------------------------------------------------------ the message builder

\* len(base_messages), lines 156-165.
BaseMessages == 8

\* The values hash() gives a uuid: any integer, the same for equal strings
\* in one process and salted anew for each process (PYTHONHASHSEED).
HashValues == {3, 11, -4}

\* _build_player_info_string(match), lines 192-223, on a match that has the
\* two attributes: the partner and the opponents of the roster line, None
\* and none when the line is empty.
BuildPlayerInfoString(match) ==
    [partner |-> IF Truthy(match.partner_name) THEN match.partner_name
                 ELSE None,
     opponents |-> IF match.opponent_names.is_none THEN <<>>
                   ELSE match.opponent_names.items]

\* _create_notification_message(match), lines 138-190, in a process whose
\* hash() is hash and with the live-video query meeting outcome: the
\* template chosen, the roster line and what follows the template, or the
\* AttributeError of line 154 leaving the call (raised).
CreateNotificationMessage(match, outcome, hash) ==
    IF BuildPlayerInfoRaises(match)
    THEN [raised |-> TRUE, message_index |-> -1,
          player_info |-> [partner |-> None, opponents |-> <<>>],
          stream |-> None]
    ELSE LET stream_info == CheckCourtStream(match.court_title, outcome)
             message_index == hash[match.uuid] % BaseMessages
         IN [raised |-> FALSE, message_index |-> message_index,
             player_info |-> BuildPlayerInfoString(match),
             stream |-> IF stream_info.raised # "none" THEN ""
                        ELSE IF stream_info.is_live
                                /\ Truthy(stream_info.stream_url)
                             THEN stream_info.stream_url
                             ELSE GetPickleballTvMessage(match.court_title)]

\* ------------------------------------------------------------------ SpecNotify: send_notification

\* The record the store holds for a match once a court check has assigned it.
StoredRecord(uuid, court_title) ==
    LET seen == UpdateMatches(EmptyMatches, <<MatchUrl(uuid)>>, 1)
    IN UpdateCourtAssignment(seen.matches, uuid, court_title, TRUE, None,
                             1).matches[uuid]

\* A match with the two attributes _build_player_info_string reads.
WithRoster(match, names) ==
    [f \in DOMAIN match \cup {"partner_name", "opponent_names"} |->
        IF f = "partner_name" THEN names.partner_name
        ELSE IF f = "opponent_names" THEN names.opponent_names
        ELSE match[f]]

Courts == {"SC1", "CC"}

\* The arguments of send_notification: the records of the store, and the
\* same with a roster.
NotifyMatches ==
    LET stored == {StoredRecord(u, c) : u \in Ids, c \in Courts}
        rosters == {ExtractPlayerNames(CycleNames),
                    [partner_name |-> None, opponent_names |-> NoList]}
    IN stored \cup {WithRoster(m, n) : m \in stored, n \in rosters}

InitNotify ==
    /\ matches = EmptyMatches
    /\ execution_history = <<>>
    /\ disk = NoFile
    /\ now = 0
    /\ pc = "idle"
    /\ frame = NoFrame
    /\ cycles = 0
    /\ last = [op |-> "init"]
    /\ pre = EmptyMatches
    /\ everPending = {}
    /\ suppressed = {}
    /\ failed = NoFailures
    /\ reported = {}
    /\ attempted = <<>>
    /\ str_hash = NoHash
    /\ chosen = NoTemplates

\* A process starts: its hash() is salted.
NewProcess(hash) ==
    /\ pc' = "running"
    /\ str_hash' = hash
    /\ last' = [op |-> "new_process"]
    /\ UNCHANGED <<matches, execution_history, disk, now, frame, cycles, pre,
                   storeHistory, failed, reported, attempted, chosen>>

\* send_notification(match), lines 100-136, with the live-video query
\* meeting outcome and the sink answering sinkOk to a post.
DoSendNotification(match, outcome, sinkOk) ==
    /\ pc = "running"
    /\ LET message == CreateNotificationMessage(match, outcome, str_hash)
       IN /\ last' = [op |-> "send_notification", arg |-> match.uuid,
                      stored |-> BuildPlayerInfoRaises(match),
                      outcome |-> outcome, sinkOk |-> sinkOk,
                      message |-> message, posted |-> ~message.raised,
                      raised |-> SendNotificationRaises(match, sinkOk),
                      ret |-> SendNotification(match, sinkOk)]
          /\ chosen' = IF message.raised THEN chosen
                       ELSE [chosen EXCEPT ![match.uuid] =
                                @ \cup {message.message_index}]
    /\ UNCHANGED <<matches, execution_history, disk, now, pc, frame, cycles,
                   pre, storeHistory, failed, reported, attempted, str_hash>>

\* check_court_stream(court_assignment) on its own.
DoCheckCourtStream(court_assignment, outcome) ==
    /\ pc = "running"
    /\ last' = [op |-> "check_court_stream", arg |-> court_assignment,
                outcome |-> outcome,
                ret |-> CheckCourtStream(court_assignment, outcome)]
    /\ UNCHANGED <<matches, execution_history, disk, now, pc, frame, cycles,
                   pre, storeHistory, failed, reported, attempted, notifyVars>>

NextNotify ==
    \/ \E hash \in [Ids -> HashValues] : NewProcess(hash)
    \/ \E match \in NotifyMatches, outcome \in StreamOutcomes,
          sinkOk \in BOOLEAN : DoSendNotification(match, outcome, sinkOk)
    \/ \E court_assignment \in Courts, outcome \in StreamOutcomes :
          DoCheckCourtStream(court_assignment, outcome)

SpecNotify == InitNotify /\ [][NextNotify]_vars

\* ------------------------------------------------------------------ SpecRoster: _extract_player_names

InitRoster ==
    /\ matches = EmptyMatches
    /\ execution_history = <<>>
    /\ disk = NoFile
    /\ now = 0
    /\ pc = "idle"
    /\ frame = NoFrame
    /\ cycles = 0
    /\ last \in [op : {"init"}, arg : MatchData]
    /\ pre = EmptyMatches
    /\ everPending = {}
    /\ suppressed = {}
    /\ failed = NoFailures
    /\ reported = {}
    /\ attempted = <<>>
    /\ str_hash = NoHash
    /\ chosen = NoTemplates

\* _extract_player_names(match_data) on the match data drawn.
DoExtractPlayerNames ==
    /\ pc = "idle"
    /\ pc' = "done"
    /\ last' = [op |-> "extract_player_names", arg |-> last.arg,
                ret |-> ExtractPlayerNames(last.arg)]
    /\ UNCHANGED <<matches, execution_history, disk, now, frame, cycles, pre,
                   storeHistory, failed, reported, attempted, notifyVars>>

NextRoster == DoExtractPlayerNames

SpecRoster == InitRoster /\ [][NextRoster]_vars

\* ------------------------------------------------------------------ SpecHistory: the history window

\* A history of n executions, as a persisted file can hold it: the record of
\* execution i was taken at time i.
HistoryOf(n) ==
    [i \in 1..n |-> RecordExecution(<<>>, i, 0, NoCounts, DefaultTallies)[1]]

\* The process has loaded a history of any length up to a few records past
\* the limit.
InitHistory ==
    /\ matches = EmptyMatches
    /\ execution_history \in {HistoryOf(n) : n \in 0..(HistoryLimit + MaxCycles)}
    /\ disk = NoFile
    /\ now = Len(execution_history)
    /\ pc = "running"
    /\ frame = NoFrame
    /\ cycles = 0
    /\ last = [op |-> "init"]
    /\ pre = EmptyMatches
    /\ everPending = {}
    /\ suppressed = {}
    /\ failed = NoFailures
    /\ reported = {}
    /\ attempted = <<>>
    /\ str_hash = NoHash
    /\ chosen = NoTemplates

\* record_execution(matches_found, match_counts), lines 166-186.
DoRecordExecution(matches_found) ==
    /\ cycles < MaxCycles
    /\ cycles' = cycles + 1
    /\ now' = now + 1
    /\ execution_history' = RecordExecution(execution_history, now + 1,
                                            matches_found, NoCounts,
                                            DefaultTallies)
    /\ last' = [op |-> "record_execution", before |-> execution_history,
                record |-> RecordExecution(<<>>, now + 1, matches_found,
                                           NoCounts, DefaultTallies)[1]]
    /\ UNCHANGED <<matches, disk, pc, frame, pre, storeHistory, failed,
                   reported, attempted, notifyVars>>

\* cleanup_old_execution_history(), lines 271-290.
DoCleanupOldExecutionHistory ==
    /\ LET cleaned == CleanupOldExecutionHistory(execution_history,
                                                 HistoryLimit)
       IN /\ execution_history' = cleaned.history
          /\ last' = [op |-> "cleanup_old_execution_history",
                      before |-> execution_history, ret |-> cleaned.ret]
    /\ UNCHANGED <<matches, disk, now, pc, frame, cycles, pre, storeHistory,
                   failed, reported, attempted, notifyVars>>

NextHistory ==
    \/ \E matches_found \in 0..MaxUrls : DoRecordExecution(matches_found)
    \/ DoCleanupOldExecutionHistory

SpecHistory == InitHistory /\ [][NextHistory]_vars

\* ------------------------------------------------------------------ SpecRoundTrip: save_config, then load_config

\* A new ConfigManager (lines 47-51) on the persisted file: the store and the
\* history load_config leaves, whatever the process held before.
NewConfigManager ==
    /\ LET r == LoadConfig(disk)
       IN /\ matches' = r.matches
          /\ execution_history' = r.execution_history
          /\ disk' = r.disk
          /\ last' = [op |-> "load_config", raised |-> r.raised]
          /\ everPending' = PendingNotifications(r.matches)
    /\ pre' = matches
    /\ suppressed' = {}
    /\ UNCHANGED <<now, cycleVars>>

\* The ids of the records in the round trip.
RoundTripIds == {"a1"}

\* The operations that change the store or the history, save_config and the
\* construction of a new ConfigManager, in any order; record_execution is
\* given the number of stored records as matches_found.
NextRoundTrip ==
    \/ \E match_urls \in UrlLists(MaxUrls) :
          CurrentUuids(match_urls) \subseteq RoundTripIds
              /\ DoUpdateMatches(match_urls)
    \/ \E current_uuids \in SUBSET RoundTripIds :
          DoRemoveStaleMatches(current_uuids)
    \/ \E uuid \in RoundTripIds, court_title \in CourtTitles,
          assigned \in BOOLEAN, match_completed \in CompletedMarkers :
          DoUpdateCourtAssignment(uuid, court_title, assigned, match_completed)
    \/ \E uuid \in RoundTripIds : DoMarkAsNotified(uuid)
    \/ DoRecordExecution(Cardinality(DOMAIN matches))
    \/ DoSaveConfig
    \/ NewConfigManager

SpecRoundTrip == Init /\ [][NextRoundTrip]_vars

\* ------------------------------------------------------------------ properties of SpecRoundTrip

SameButLastSeen(r1, r2) == r2 = [r1 EXCEPT !.last_seen = r2.last_seen]

\* C1: after remove_stale_matches(O) the stored ids are exactly the ids stored
\* before that are in O, and the count returned is the number of ids stored
\* before that are not in O.
C1_PruneExact ==
    last.op = "remove_stale_matches" =>
        /\ DOMAIN matches = DOMAIN pre \cap last.arg
        /\ last.ret = Cardinality(DOMAIN pre \ last.arg)

\* A prune that removed an assigned, notified record and kept another one.
C1_Witness ==
    /\ last.op = "remove_stale_matches"
    /\ DOMAIN matches # {}
    /\ \E u \in DOMAIN pre \ last.arg :
          pre[u].status = "assigned" /\ pre[u].court_assigned /\ pre[u].notified

\* C2: a second update_matches with the same id set, right after the first,
\* creates no record and changes nothing but last_seen, which does not go
\* back.
C2_ReconcileTwice ==
    (last.op = "update_matches" /\ last.again) =>
        /\ DOMAIN matches = DOMAIN pre
        /\ last.ret.new_matches = 0
        /\ \A u \in DOMAIN pre :
              /\ matches[u].status = pre[u].status
              /\ matches[u].court_assigned = pre[u].court_assigned
              /\ matches[u].notified = pre[u].notified
              /\ SameButLastSeen(pre[u], matches[u])
              /\ matches[u].last_seen >= pre[u].last_seen

\* A repeated update_matches over a store that holds an assigned record among
\* the observed ids, whose last_seen moved.
C2_Witness ==
    /\ last.op = "update_matches"
    /\ last.again
    /\ \E u \in last.arg :
          /\ u \in DOMAIN pre
          /\ pre[u].status = "assigned"
          /\ matches[u].last_seen > pre[u].last_seen

\* C3: update_matches creates a fresh FUTURE record for every observed id that
\* was not stored, changes only last_seen of every observed id that was,
\* leaves every other record as it was, and counts every distinct observed id
\* once, as new or as existing.
C3_ReconcileFrame ==
    last.op = "update_matches" =>
        LET observed == last.arg
        IN /\ DOMAIN matches = DOMAIN pre \cup observed
           /\ \A u \in observed \ DOMAIN pre :
                 /\ matches[u].status = "future"
                 /\ ~matches[u].court_assigned
                 /\ ~matches[u].notified
                 /\ matches[u].first_seen = matches[u].last_seen
                 /\ matches[u].last_seen = now
           /\ \A u \in observed \cap DOMAIN pre :
                 /\ SameButLastSeen(pre[u], matches[u])
                 /\ matches[u].last_seen = now
           /\ \A u \in DOMAIN pre \ observed : matches[u] = pre[u]
           /\ last.ret.new_matches = Cardinality(observed \ DOMAIN pre)
           /\ last.ret.existing_matches = Cardinality(observed \cap DOMAIN pre)
           /\ last.ret.new_matches + last.ret.existing_matches
                 = Cardinality(observed)

\* An update_matches given more links than distinct ids, one of them new,
\* over a store that holds an assigned record that is not observed.
C3_Witness ==
    /\ last.op = "update_matches"
    /\ last.links > Cardinality(last.arg)
    /\ last.ret.new_matches = 1
    /\ \E u \in DOMAIN pre \ last.arg : pre[u].status = "assigned"

\* C4: no operation on the store moves a record that stays in it from
\* ASSIGNED to FUTURE, and FUTURE and ASSIGNED are the only statuses.
C4_StatusMonotonic ==
    /\ \A u \in DOMAIN matches : matches[u].status \in {"future", "assigned"}
    /\ \A u \in DOMAIN pre \cap DOMAIN matches :
          pre[u].status = "assigned" => matches[u].status = "assigned"

\* update_court_assignment with assigned = False on an ASSIGNED record.
C4_Witness ==
    /\ last.op = "update_court_assignment"
    /\ ~last.assigned
    /\ last.arg \in DOMAIN pre
    /\ pre[last.arg].status = "assigned"
    /\ pre[last.arg].court_assigned
    /\ ~matches[last.arg].court_assigned

\* C5: a record that is notified stays notified for as long as it is stored,
\* and no notification pass dispatches for it.
C5_AtMostOnce ==
    \A u \in DOMAIN pre \cap DOMAIN matches :
        pre[u].notified =>
            /\ matches[u].notified
            /\ last.op = "process_pending_notifications" => u \notin last.arg

\* A notification pass over a store that holds a record marked notified by
\* mark_as_notified (court assigned, not completed) and a pending one.
C5_Witness ==
    /\ last.op = "process_pending_notifications"
    /\ last.arg # {}
    /\ \E u \in DOMAIN pre :
          /\ pre[u].notified
          /\ pre[u].court_assigned
          /\ ~Truthy(pre[u].match_completed)

\* C7: a record whose completed marker was set before it was ever pending is
\* never pending for as long as it is stored.
C7_CompletedNeverPending == suppressed \cap PendingNotifications(matches) = {}

\* Such a record after a later update_court_assignment that reports a court
\* and carries no completed marker.
C7_Witness ==
    \E u \in suppressed :
        /\ matches[u].court_assigned
        /\ ~Truthy(matches[u].match_completed)
        /\ last.op = "update_court_assignment"
        /\ last.arg = u

\* C17: a stored record whose completed marker is set is notified.
C17_CompletedIsNotified ==
    \A u \in DOMAIN matches :
        Truthy(matches[u].match_completed) => matches[u].notified

\* A record update_court_assignment has just marked completed, which was
\* stored, not notified and had no court before the call.
C17_Witness ==
    /\ last.op = "update_court_assignment"
    /\ last.arg \in DOMAIN pre
    /\ ~pre[last.arg].notified
    /\ ~last.assigned
    /\ Truthy(matches[last.arg].match_completed)

\* C18: a stored record that is notified has its notification_timestamp.
C18_NotifiedHasTimestamp ==
    \A u \in DOMAIN matches :
        matches[u].notified => matches[u].notification_timestamp # NoTime

\* A store with a record mark_as_notified has just marked and a record
\* update_court_assignment marked when it reported the match completed.
C18_NotifiedWitness ==
    /\ last.op = "mark_as_notified"
    /\ last.arg \in DOMAIN pre
    /\ ~pre[last.arg].notified
    /\ matches[last.arg].notified
    /\ \E u \in DOMAIN matches \ {last.arg} :
          matches[u].notified /\ Truthy(matches[u].match_completed)

\* C19: a stored record with court_assigned has a court_title that is not
\* empty.
C19_AssignedHasTitle ==
    \A u \in DOMAIN matches :
        matches[u].court_assigned => Truthy(matches[u].court_title)

\* C20: the completed marker of a record that stays in the store is not
\* unset, nor changed, by any operation.
C20_MarkerNeverCleared ==
    \A u \in DOMAIN pre \cap DOMAIN matches :
        Truthy(pre[u].match_completed) =>
            matches[u].match_completed = pre[u].match_completed

\* ------------------------------------------------------------------ properties of SpecRestart

\* C21: in every state of the store the pending set is exactly the stored
\* records with court_assigned true, notified false and no completed marker,
\* and it is the set a notification pass has worked on.
C21_PendingExact ==
    LET want(m) == {u \in DOMAIN m : /\ m[u].court_assigned = TRUE
                                     /\ m[u].notified = FALSE
                                     /\ m[u].match_completed = None}
    IN  /\ PendingNotifications(matches) = want(matches)
        /\ last.op = "process_pending_notifications" => last.arg = want(pre)

C21_Witness ==
    /\ last.op = "process_pending_notifications"
    /\ last.arg # {}
    /\ \E u \in DOMAIN pre \ last.arg : pre[u].court_assigned
    /\ \E u \in DOMAIN matches :
          matches[u].court_assigned /\ Truthy(matches[u].match_completed)

C33_AssignedIffFlag ==
    \A u \in DOMAIN matches :
        matches[u].status = "assigned" <=> matches[u].court_assigned

\* C10: the persisted file follows every mark_as_notified of a pending
\* record, so a process that starts after the one that marked the record
\* loads it notified.
C10_MarkedIsPersisted ==
    (/\ last.op = "mark_as_notified"
     /\ last.arg \in DOMAIN pre
     /\ IsPending(pre[last.arg])) =>
        /\ last.arg \in DOMAIN LoadMatches(disk)
        /\ LoadMatches(disk)[last.arg].notified

\* ------------------------------------------------------------------ properties of SpecCycle

\* C6: a dispatch for a pending record that finds the sink ready to accept
\* the post succeeds and leaves the record notified.
C6_SinkReadyNotifies ==
    (last.op = "send_notification" /\ last.sinkOk) =>
        /\ last.ret
        /\ matches[last.arg].notified

\* C8: a record the API reported court-assigned and completed carries the
\* completed marker, is notified, and gets no dispatch.
C8_CompletedSuppressed ==
    \A u \in reported \cap DOMAIN matches :
        /\ Truthy(matches[u].match_completed)
        /\ matches[u].notified
        /\ ~(last.op = "send_notification" /\ last.arg = u)

\* C9: a stored record with a failed dispatch behind it is not notified and
\* is pending.
C9_FailedStaysPending ==
    \A u \in DOMAIN matches :
        failed[u] > 0 =>
            /\ ~matches[u].notified
            /\ u \in PendingNotifications(matches)

\* A record whose dispatch failed in two cycles, with the sink ready in one of
\* them, at the end of the second cycle.
C9_Witness ==
    /\ pc = "done"
    /\ cycles = 2
    /\ \E u \in DOMAIN matches :
          /\ failed[u] >= 2
          /\ u \in DOMAIN disk.matches
          /\ ~disk.matches[u].notified

\* C11: when the notification pass of a cycle is over, send_notification has
\* been called exactly once for every record that was pending when the pass
\* began, in the order of the list, whatever the outcome of each call.
C11_EveryPendingAttemptedOnce ==
    /\ pc \in {"record", "done", "crashed"} => attempted = frame.pending
    /\ pc = "dispatch" => attempted = SubSeq(frame.pending, 1, frame.i - 1)

\* The end of a pass over two pending records in which the dispatch for the
\* first one failed.
C11_Witness ==
    /\ pc = "record"
    /\ Len(frame.pending) = 2
    /\ Len(attempted) = 2
    /\ failed[frame.pending[1]] > 0
    /\ ~matches[frame.pending[1]].notified

\* C12: check_multiple_matches returns one result per requested id, in order,
\* whatever the API answers; no exception leaves get_match_info.
C12_AdapterNeverRaises ==
    last.op = "check_court_assignments" =>
        /\ ~last.raised
        /\ last.results = last.arg

\* C13: a process that fetched the page ends after record_execution and the
\* save_config that follows it.
C13_CycleCompletes ==
    pc \in {"done", "crashed"} =>
        /\ last.op = "record_execution"
        /\ execution_history # <<>>
        /\ disk = SaveConfig(matches, execution_history)

\* C24: a process that finds the bot id or the player slug missing ends where
\* it started: the store is the one the file gave, nothing is fetched,
\* pruned, reconciled, checked, dispatched, recorded or saved, and the next
\* step is the start of another process.
C24_MissingConfigIsFatal ==
    [][/\ last'.op = "startup_failed" =>
            /\ pc' = "idle"
            /\ frame' = NoFrame
            /\ attempted' = <<>>
            /\ now' = now
            /\ matches' = LoadMatches(disk)
            /\ execution_history' = LoadHistory(disk)
            /\ disk'.matches = disk.matches
            /\ disk'.execution_history = disk.execution_history
       /\ last.op = "startup_failed" =>
            last'.op \in {"start", "startup_failed"}]_vars

C24_Witness ==
    /\ last.op = "startup_failed"
    /\ PendingNotifications(matches) # {}
    /\ MatchesNeedingCourtCheck(matches) # {}

\* C26: the entry record_execution appends at the end of a cycle carries the
\* tallies of the cycle: the stale records removed, the court checks made,
\* the court assignments found and the notifications sent.
C26_RecordCarriesTallies ==
    last.op = "record_execution" =>
        LET record == execution_history[Len(execution_history)]
        IN /\ record.stale_matches_removed = frame.stale_removed
           /\ record.court_assignments_checked = frame.court_stats.checked
           /\ record.court_assignments_found = frame.court_stats.court_assigned
           /\ record.notifications_sent = frame.sent_count

\* C27: a FUTURE record the court check of a cycle reports court-assigned and
\* not completed is ASSIGNED and pending when the check returns, so that the
\* notification pass of the same cycle dispatches for it; and a dispatch that
\* finds the sink ready leaves the record notified and no longer pending.
C27_SameCycleNotification ==
    /\ last.op = "check_court_assignments" /\ ~last.raised =>
          \A i \in DOMAIN last.answers :
              last.answers[i].assigned =>
                  /\ pre[last.answers[i].uuid].status = "future"
                  /\ matches[last.answers[i].uuid].status = "assigned"
                  /\ last.answers[i].uuid \in PendingNotifications(matches)
    /\ last.op = "send_notification" /\ last.sinkOk =>
          /\ last.arg \in Range(attempted)
          /\ matches[last.arg].notified
          /\ last.arg \notin PendingNotifications(matches)

\* C28: a court check that fails for a record leaves the record as it was,
\* FUTURE and due for the next court check, and is counted in the errors.
C28_FailedCheckFrame ==
    last.op = "check_court_assignments" /\ ~last.raised =>
        LET failures == {last.answers[i].uuid :
                            i \in {j \in DOMAIN last.answers :
                                      ~last.answers[j].success}}
        IN /\ \A u \in failures :
                 /\ matches[u] = pre[u]
                 /\ matches[u].status = "future"
                 /\ u \in MatchesNeedingCourtCheck(matches)
           /\ last.ret.errors = Cardinality(failures)

C28_Witness ==
    /\ last.op = "check_court_assignments" /\ ~last.raised
    /\ cycles = 2
    /\ \E i \in DOMAIN last.answers : last.answers[i].success
    /\ \E i \in DOMAIN last.answers :
          /\ ~last.answers[i].success
          /\ pre[last.answers[i].uuid].first_seen
                < pre[last.answers[i].uuid].last_seen
          /\ pre[last.answers[i].uuid].last_checked = NoTime

\* C29: after a successful court check the stored record holds the partner
\* and the opponents extracted from the payload.
C29_RosterStored ==
    last.op = "check_court_assignments" /\ ~last.raised =>
        \A i \in DOMAIN last.answers :
            last.answers[i].success =>
                LET record == matches[last.answers[i].uuid]
                IN /\ {"partner_name", "opponent_names"} \subseteq DOMAIN record
                   /\ record.partner_name = last.answers[i].partner_name
                   /\ record.opponent_names = last.answers[i].opponent_names

\* C16: at the end of a completed cycle the stored ids, in memory and in the
\* persisted file, are the ids the page showed in that cycle.
C16_StoredIsObserved ==
    pc = "done" =>
        /\ DOMAIN matches = CurrentUuids(frame.results_urls)
        /\ DOMAIN disk.matches = CurrentUuids(frame.results_urls)

\* The end of a second cycle, which removed a record the page no longer shows
\* and created a record for a new id.
C16_Witness ==
    /\ pc = "done"
    /\ cycles = 2
    /\ frame.stale_removed > 0
    /\ frame.match_counts.new_matches > 0

\* C34: a failed page fetch ends the cycle: the step leaves the store, the
\* history, the file, the clock and the dispatch list as they are, the only
\* step after it is the start of another process, and every pruning step
\* directly follows a fetched page and keeps exactly the ids of that page.
C34_FailedFetchFrame ==
    [][/\ last'.op = "fetch_failed" =>
             /\ UNCHANGED <<matches, execution_history, disk, now, attempted>>
             /\ pc' = "idle"
       /\ last.op = "fetch_failed" => last'.op \in {"start", "startup_failed"}
       /\ last'.op = "remove_stale_matches" =>
             /\ last.op = "fetch"
             /\ last'.arg = CurrentUuids(last.arg)
             /\ DOMAIN matches' = DOMAIN matches \cap CurrentUuids(last.arg)]_vars

C34_Witness ==
    /\ last.op = "fetch_failed"
    /\ DOMAIN matches # {}
    /\ disk.exists
    /\ disk.matches = matches

\* C36: send_notification is only called for a record that is in the store,
\* court-assigned, not notified and without a completed marker when the call
\* is made; and a first cycle whose court checks all answered "no court yet"
\* ends with every observed match stored FUTURE and not notified, no
\* dispatch attempted and no notification sent.
C36_DispatchOnlyPending ==
    /\ last.op = "send_notification" =>
          /\ last.arg \in DOMAIN pre
          /\ pre[last.arg].court_assigned
          /\ ~pre[last.arg].notified
          /\ pre[last.arg].match_completed = None
    /\ (/\ pc = "done" /\ cycles = 1
        /\ frame.court_stats.checked >= 1
        /\ frame.court_stats.court_assigned = 0
        /\ frame.court_stats.errors = 0) =>
          /\ DOMAIN matches = CurrentUuids(frame.results_urls)
          /\ \A u \in DOMAIN matches :
                /\ matches[u].status = "future"
                /\ ~matches[u].court_assigned
                /\ ~matches[u].notified
          /\ attempted = <<>>
          /\ frame.sent_count = 0
          /\ disk.matches = matches

C36_Witness ==
    /\ last.op = "send_notification"
    /\ pre[last.arg].court_assigned
    /\ \E u \in DOMAIN matches :
          /\ matches[u].status = "future"
          /\ matches[u].last_checked # NoTime
          /\ u \notin Range(attempted)

\* ------------------------------------------------------------------ properties of SpecLoad

\* A file load_config cannot read in full.
Corrupt(file) ==
    /\ file.exists
    /\ \/ file.shape # "object"
       \/ \E u \in DOMAIN file.matches : MatchInfoRaises(file.matches[u])
       \/ \E i \in DOMAIN file.execution_history :
             ExecutionEntryException(file.execution_history[i]) # "none"

\* C14: load_config returns on every file, and on one that is not JSON, is
\* not a JSON object or has an entry with a missing or an unexpected field it
\* leaves the store and the history empty.
C14_CorruptFileLoadsEmpty ==
    last.op = "load_config" =>
        /\ last.raised = "none"
        /\ Corrupt(last.file) =>
              matches = EmptyMatches /\ execution_history = <<>>

C22_SameTemplate == \A u \in Ids : Cardinality(chosen[u]) <= 1

\* C23: a live-video query that finds no live stream of the court, for
\* whatever reason, makes check_court_stream return is_live false without
\* raising, and the message of the notification is built and posted to the
\* sink all the same.
C23_LookupFailureNeverBlocks ==
    /\ last.op = "check_court_stream" /\ last.outcome # "live" =>
          ~last.ret.is_live /\ last.ret.raised = "none"
    /\ last.op = "send_notification" /\ last.outcome # "live" =>
          ~last.message.raised /\ last.posted

\* C31: in one process a step that is not a live-video query lies between
\* every two live-video queries: a throttling delay.
C31_DelayBetweenLookups ==
    [][LET lookup(l) == \/ l.op = "check_court_stream"
                       \/ (l.op = "send_notification" /\ ~l.message.raised)
       IN ~(lookup(last) /\ lookup(last'))]_vars

\* ------------------------------------------------------------------ properties of SpecRoster

\* C30: _extract_player_names returns (None, None) when no name of either
\* team holds the tracked first name; otherwise the tracked team is team one
\* if one of its names holds it and team two if not, the partner is the
\* first name of the tracked team that does not hold it (None without one)
\* and the opponents are the names of the other team, stripped, without the
\* empty ones and in their order (None without one).
C30_RosterExtraction ==
    LET NonEmpty(name) == name # ""
        Names(keys) ==
            SelectSeq([i \in 1..2 |-> IF keys[i] \in {NoKey, None} THEN ""
                                      ELSE Strip(keys[i])], NonEmpty)
        Tracked(names) == \E i \in DOMAIN names : HasAdam(names[i])
        one == Names(last.arg.team_one)
        two == Names(last.arg.team_two)
        own == IF Tracked(one) THEN one ELSE two
        other == IF Tracked(one) THEN two ELSE one
    IN last.op = "extract_player_names" =>
         IF ~Tracked(one) /\ ~Tracked(two)
         THEN last.ret = [partner_name |-> None, opponent_names |-> NoList]
         ELSE /\ (\A i \in DOMAIN own : HasAdam(own[i])) =>
                    last.ret.partner_name = None
              /\ \A i \in DOMAIN own :
                    (~HasAdam(own[i]) /\ \A j \in 1..(i - 1) : HasAdam(own[j]))
                        => last.ret.partner_name = own[i]
              /\ last.ret.opponent_names =
                    IF other = <<>> THEN NoList ELSE ListOf(other)

C30_Witness ==
    /\ last.op = "extract_player_names"
    /\ last.arg.team_two = <<" ADAM B ", " Sam ">>
    /\ last.arg.team_one = <<" ", "Bo">>
    /\ last.ret = [partner_name |-> "Sam", opponent_names |-> ListOf(<<"Bo">>)]

\* ------------------------------------------------------------------ properties of SpecHistory

\* C25: after record_execution the history holds at most 100 records: the
\* record of this execution last, before it the records it held, in their
\* order, without the oldest ones that are over the 100.
C25_HistoryWindow ==
    last.op = "record_execution" =>
        LET full == Append(last.before, last.record)
            h == execution_history
            dropped == Len(full) - Len(h)
        IN /\ Len(h) <= 100
           /\ Len(h) = IF Len(full) <= 100 THEN Len(full) ELSE 100
           /\ h[Len(h)] = last.record
           /\ \A i \in 1..Len(h) : h[i] = full[i + dropped]
           /\ \A i \in 1..(Len(h) - 1) : h[i].timestamp < h[i + 1].timestamp

C25_Witness ==
    /\ last.op = "record_execution"
    /\ Len(last.before) = 100
    /\ Len(execution_history) = 100
    /\ execution_history[1] = last.before[2]
    /\ execution_history[100] = last.record

====
